---- MODULE Spec2Model ----
(***************************************************************************)
(* A model of the slicesutils package: the parallel executor               *)
(* (ParallelMap / ParallelForEach), the panic-recovery wrapper             *)
(* (SafeExcecute and the Safe* callers), the in-place slice helpers and    *)
(* the lazy iter.Seq transformations.                                      *)
(***************************************************************************)
EXTENDS Integers, Sequences, FiniteSets, TLC

\* ------------------------------------------------------------------------
\* Bounds of the model
\* ------------------------------------------------------------------------
\* longest input slice given to ParallelMap / ParallelForEach
MaxLen == 3
\* largest runtime.NumCPU() considered
MaxCPU == 2

\* element values of the input slices
Values == {1, 2}

\* all sequences over S of length at most n
SeqsUpTo(S, n) == UNION {[1..k -> S] : k \in 0..n}

RECURSIVE SumSeq(_)
SumSeq(s) == IF s = <<>> THEN 0 ELSE Head(s) + SumSeq(Tail(s))

RECURSIVE SumOver(_, _)
\* sum of s[i] over the positions i in the set P
SumOver(s, P) ==
    IF P = {} THEN 0
    ELSE LET i == CHOOSE x \in P : TRUE IN s[i] + SumOver(s, P \ {i})

Min2(a, b) == IF a < b THEN a ELSE b

VARIABLES
    \* ---- ParallelMap / ParallelForEach (func_utils.go) ----
    op,           \* the operation called
    pc,           \* position of the calling goroutine
    inputSlice,   \* the input (the empty sequence when nil)
    isNil,        \* inputSlice == nil
    numCPU,       \* runtime.NumCPU()
    numWorkers,   \* numWorkers
    spawned,      \* the i of the "Start workers" loop
    sent,         \* how many indices the send loop has sent
    inputChan,    \* the buffered channel's queue
    chanCap,      \* its capacity
    chanClosed,   \* close(inputChan) has run
    wg,           \* the sync.WaitGroup counter
    outputSlice,  \* outputSlice of ParallelMap
    wk,           \* the worker goroutines
    calls,        \* how often the per-element function ran for each position
    accWrites,    \* the writes to the shared accumulator `output`, in order
    result,       \* what the call returned
    \* ---- SafeExcecute and the Safe* operations ----
    sOp,          \* the operation called
    sPc,          \* "run" while the call is active, "done" when control is back
    sInput,       \* the input slice, or the elements of the input sequence
    behav,        \* how the user function behaves on each position
    stopFirst,    \* the consumer of SafeMapSeq stops after its first element
    sIdx,         \* the next position of the loop over the input
    invoked,      \* how often the user function ran for each position
    sOut,         \* outputSlice / accumulator / the elements yielded so far
    sRet,         \* what the caller gets back
    \* ---- the slice helpers (func_utils.go) ----
    slFn,         \* the function called
    slPc,         \* "call" before the call, "done" after it
    slIn,         \* the slice as the caller passed it
    backing,      \* the caller's backing array, which the call may write
    element,      \* the element argument
    occurrencesToDelete,  \* the *int argument of RemoveElement
    ret,          \* the slice returned
    getWeighfn,   \* WeightedSort: the weight the weight function gives each value
    lessRank,     \* WeightedSort: less(x, y) compares the ranks of x and y
    chunkSize,    \* Chunk: the chunkSize argument
    sliceB,       \* Difference: the slice b
    again,        \* Distinct: what a second call, on the returned slice, returns
    \* ---- the lazy sequences (slicesutils1.23.go) ----
    qPc,          \* "new": nothing constructed; "building": GroupBySeq's
                  \* constructor runs; "idle": built, not driven; "driving";
                  \* "done"
    plan,         \* the constructors the program calls, the source's side first
    drives,       \* how often the consumer has started to range over the result
    firstGot,     \* the elements the consumer received in the first drive
    src,          \* the elements of the source sequence
    take,         \* the consumer stops at its take-th element (0: never)
    stg,          \* the stages of the pipeline, the source's side first
    active,       \* the producer running: 0 the source, k the second
                  \* input of stage k, Len(stg) + 1 none
    srcPos,       \* how many elements the source has produced
    got,          \* the elements the consumer has received
    cStopped,     \* the consumer has returned stop
    cLate,        \* the consumer was called after it returned stop
    pulledLate    \* a producer produced an element after the stop

parVars == <<op, pc, inputSlice, isNil, numCPU, numWorkers, spawned, sent,
             inputChan, chanCap, chanClosed, wg, outputSlice, wk, calls,
             accWrites, result>>

safeVars == <<sOp, sPc, sInput, behav, stopFirst, sIdx, invoked, sOut, sRet>>

sliceVars == <<slFn, slPc, slIn, backing, element, occurrencesToDelete, ret,
               getWeighfn, lessRank, chunkSize, sliceB, again>>

seqVars == <<qPc, plan, drives, firstGot, src, take, stg, active, srcPos, got,
             cStopped, cLate, pulledLate>>

vars == <<parVars, safeVars, sliceVars, seqVars>>

\* what the steps of one component leave alone
notPar == <<safeVars, sliceVars, seqVars>>
notSafe == <<parVars, sliceVars, seqVars>>
notSlice == <<parVars, safeVars, seqVars>>
notSeq == <<parVars, safeVars, sliceVars>>

\* the state of the lazy sequences while another component runs
SeqIdle ==
    /\ qPc = "none"
    /\ plan = <<>>
    /\ drives = 0
    /\ firstGot = <<>>
    /\ src = <<>>
    /\ take = 0
    /\ stg = <<>>
    /\ active = 0
    /\ srcPos = 0
    /\ got = <<>>
    /\ cStopped = FALSE
    /\ cLate = FALSE
    /\ pulledLate = FALSE

\* a *int argument: nil, or a pointer to k
NilPtr == [nil |-> TRUE, val |-> 0]
PtrTo(k) == [nil |-> FALSE, val |-> k]

\* the state of the slice helpers while another component runs
SliceIdle ==
    /\ slFn = "none"
    /\ slPc = "idle"
    /\ slIn = <<>>
    /\ backing = <<>>
    /\ element = 0
    /\ occurrencesToDelete = NilPtr
    /\ ret = <<>>
    /\ getWeighfn = <<>>
    /\ lessRank = <<>>
    /\ chunkSize = 0
    /\ sliceB = <<>>
    /\ again = <<>>

\* ------------------------------------------------------------------------
\* ParallelMap and ParallelForEach
\* ------------------------------------------------------------------------
Workers == 1..MaxCPU

\* the map function of TestParallelMap
mapFunc(item) == item * 2

\* numWorkers := runtime.NumCPU(); if len(inputSlice) < numWorkers { ... }
NumWorkers(cpu, n) == IF n < cpu THEN n ELSE cpu

\* make(chan int, len(inputSlice))
ChanCapacity(n) == n

\* a send loop whose index is off by one
ChanMsg_OffByOne(o, s, i) ==
    LET j == IF i > 1 THEN i - 1 ELSE i
    IN [idx |-> j, item |-> IF o = "ParallelForEach" THEN s[j] ELSE 0]

\* the message the send loop puts on the channel for position i:
\* ParallelMap sends the index, ParallelForEach the element
\* (idx is kept with it to tell the positions apart)
ChanMsg(o, s, i) == [idx |-> i, item |-> IF o = "ParallelForEach" THEN s[i] ELSE 0]

\* a receive that leaves the value in the channel
Dequeue_Peek(ch) == ch

\* what a receive leaves in the channel
Dequeue(ch) == Tail(ch)

\* a worker that writes every result to the first slot
WriteOutput_FirstSlot(out, in, idx) == [out EXCEPT ![1] = mapFunc(in[idx])]

\* outputSlice[idx] = mapFunc(inputSlice[idx])
WriteOutput(out, in, idx) == [out EXCEPT ![idx] = mapFunc(in[idx])]

\* output = item instead of output += item
AccAdd_Overwrite(tmp, item) == item

\* output += item, the write half
AccAdd(tmp, item) == tmp + item

\* a worker without its deferred wg.Done()
WgDone_Missing(n) == n

\* wg.Add(1), wg.Done()
WgAdd(n) == n + 1
WgDone(n) == n - 1

\* (slots: the positions this worker has received from the channel)
WorkerInit ==
    [st |-> "unborn", idx |-> 0, item |-> 0, tmp |-> 0, seen |-> 1, slots |-> {}]

\* the state of the Safe* operations while another component runs
SafeIdle ==
    /\ sOp = "none"
    /\ sPc = "idle"
    /\ sInput = <<>>
    /\ behav = <<>>
    /\ stopFirst = FALSE
    /\ sIdx = 0
    /\ invoked = <<>>
    /\ sOut = <<>>
    /\ sRet = <<>>

ParInit ==
    /\ SeqIdle
    /\ SafeIdle
    /\ SliceIdle
    /\ op \in {"ParallelMap", "ParallelForEach"}
    /\ isNil \in BOOLEAN
    /\ inputSlice \in SeqsUpTo(Values, MaxLen)
    /\ isNil => inputSlice = <<>>
    /\ numCPU \in 1..MaxCPU
    /\ pc = "start"
    /\ numWorkers = 0
    /\ spawned = 0
    /\ sent = 0
    /\ inputChan = <<>>
    /\ chanCap = 0
    /\ chanClosed = FALSE
    /\ wg = 0
    /\ outputSlice = <<>>
    /\ wk = [w \in Workers |-> WorkerInit]
    /\ calls = [i \in 1..Len(inputSlice) |-> 0]
    /\ accWrites = <<0>>
    /\ result = <<>>

\* if inputSlice == nil { return []O{} }
ReturnNil ==
    /\ UNCHANGED notPar
    /\ pc = "start"
    /\ isNil
    /\ pc' = "done"
    /\ result' = <<>>
    /\ UNCHANGED <<op, inputSlice, isNil, numCPU, numWorkers, spawned, sent,
                   inputChan, chanCap, chanClosed, wg, outputSlice, wk, calls,
                   accWrites>>

\* outputSlice := make(...); numWorkers := ...; inputChan := make(chan, len)
Setup ==
    /\ UNCHANGED notPar
    /\ pc = "start"
    /\ ~isNil
    /\ outputSlice' = [i \in 1..Len(inputSlice) |-> 0]
    /\ numWorkers' = NumWorkers(numCPU, Len(inputSlice))
    /\ chanCap' = ChanCapacity(Len(inputSlice))
    /\ pc' = "spawn"
    /\ UNCHANGED <<op, inputSlice, isNil, numCPU, spawned, sent, inputChan,
                   chanClosed, wg, wk, calls, accWrites, result>>

\* for i := 0; i < numWorkers; i++ { wg.Add(1); go func() {...}() }
StartWorker ==
    /\ UNCHANGED notPar
    /\ pc = "spawn"
    /\ spawned < numWorkers
    /\ wg' = WgAdd(wg)
    /\ wk' = [wk EXCEPT ![spawned + 1].st = "recv"]
    /\ spawned' = spawned + 1
    /\ UNCHANGED <<op, pc, inputSlice, isNil, numCPU, numWorkers, sent,
                   inputChan, chanCap, chanClosed, outputSlice, calls,
                   accWrites, result>>

WorkersStarted ==
    /\ UNCHANGED notPar
    /\ pc = "spawn"
    /\ spawned >= numWorkers
    /\ pc' = "send"
    /\ UNCHANGED <<op, inputSlice, isNil, numCPU, numWorkers, spawned, sent,
                   inputChan, chanCap, chanClosed, wg, outputSlice, wk, calls,
                   accWrites, result>>

\* for i := range inputSlice { inputChan <- i }: blocks while the buffer is full
SendIndex ==
    /\ UNCHANGED notPar
    /\ pc = "send"
    /\ sent < Len(inputSlice)
    /\ Len(inputChan) < chanCap
    /\ inputChan' = Append(inputChan, ChanMsg(op, inputSlice, sent + 1))
    /\ sent' = sent + 1
    /\ UNCHANGED <<op, pc, inputSlice, isNil, numCPU, numWorkers, spawned,
                   chanCap, chanClosed, wg, outputSlice, wk, calls, accWrites,
                   result>>

\* close(inputChan)
CloseChan ==
    /\ UNCHANGED notPar
    /\ pc = "send"
    /\ sent = Len(inputSlice)
    /\ chanClosed' = TRUE
    /\ pc' = "wait"
    /\ UNCHANGED <<op, inputSlice, isNil, numCPU, numWorkers, spawned, sent,
                   inputChan, chanCap, wg, outputSlice, wk, calls, accWrites,
                   result>>

\* wg.Wait(); return outputSlice
\* (the writes of the workers happen before the return of Wait, so the
\*  caller reads the last write to the accumulator)
WaitReturn ==
    /\ UNCHANGED notPar
    /\ pc = "wait"
    /\ wg = 0
    /\ pc' = "done"
    /\ result' = IF op = "ParallelMap" THEN outputSlice ELSE <<>>
    /\ UNCHANGED <<op, inputSlice, isNil, numCPU, numWorkers, spawned, sent,
                   inputChan, chanCap, chanClosed, wg, outputSlice, wk, calls,
                   accWrites>>

\* for idx := range inputChan: a value is received
Receive(w) ==
    /\ UNCHANGED notPar
    /\ wk[w].st = "recv"
    /\ inputChan # <<>>
    /\ wk' = [wk EXCEPT ![w].st = "call",
                        ![w].idx = Head(inputChan).idx,
                        ![w].item = Head(inputChan).item,
                        ![w].slots = @ \cup {Head(inputChan).idx}]
    /\ inputChan' = Dequeue(inputChan)
    /\ UNCHANGED <<op, pc, inputSlice, isNil, numCPU, numWorkers, spawned,
                   sent, chanCap, chanClosed, wg, outputSlice, calls,
                   accWrites, result>>

\* for idx := range inputChan: the channel is closed and drained, the loop
\* ends and the deferred wg.Done() runs
WorkerExit(w) ==
    /\ UNCHANGED notPar
    /\ wk[w].st = "recv"
    /\ inputChan = <<>>
    /\ chanClosed
    /\ wk' = [wk EXCEPT ![w].st = "exit"]
    /\ wg' = WgDone(wg)
    /\ UNCHANGED <<op, pc, inputSlice, isNil, numCPU, numWorkers, spawned,
                   sent, inputChan, chanCap, chanClosed, outputSlice, calls,
                   accWrites, result>>

\* outputSlice[idx] = mapFunc(inputSlice[idx])
MapElement(w) ==
    /\ UNCHANGED notPar
    /\ op = "ParallelMap"
    /\ wk[w].st = "call"
    /\ outputSlice' = WriteOutput(outputSlice, inputSlice, wk[w].idx)
    /\ calls' = [calls EXCEPT ![wk[w].idx] = @ + 1]
    /\ wk' = [wk EXCEPT ![w].st = "recv"]
    /\ UNCHANGED <<op, pc, inputSlice, isNil, numCPU, numWorkers, spawned,
                   sent, inputChan, chanCap, chanClosed, wg, accWrites,
                   result>>

\* forEachFunc(input) with the function of TestParallelForEach_AppendingItems,
\* output += item: the read half. The read is not synchronized with the
\* other workers' writes: it returns the last write, or an earlier one that
\* is not older than what this worker has already seen.
ForEachRead(w) ==
    /\ UNCHANGED notPar
    /\ op = "ParallelForEach"
    /\ wk[w].st = "call"
    /\ \E j \in wk[w].seen..Len(accWrites) :
          wk' = [wk EXCEPT ![w].st = "write", ![w].tmp = accWrites[j],
                           ![w].seen = j]
    /\ calls' = [calls EXCEPT ![wk[w].idx] = @ + 1]
    /\ UNCHANGED <<op, pc, inputSlice, isNil, numCPU, numWorkers, spawned,
                   sent, inputChan, chanCap, chanClosed, wg, outputSlice,
                   accWrites, result>>

\* output += item: the write half
ForEachWrite(w) ==
    /\ UNCHANGED notPar
    /\ op = "ParallelForEach"
    /\ wk[w].st = "write"
    /\ accWrites' = Append(accWrites, AccAdd(wk[w].tmp, wk[w].item))
    /\ wk' = [wk EXCEPT ![w].st = "recv", ![w].seen = Len(accWrites) + 1]
    /\ UNCHANGED <<op, pc, inputSlice, isNil, numCPU, numWorkers, spawned,
                   sent, inputChan, chanCap, chanClosed, wg, outputSlice,
                   calls, result>>

\* the value of `output` the caller reads after ParallelForEach returned
output == accWrites[Len(accWrites)]

MainStep ==
    \/ ReturnNil
    \/ Setup
    \/ StartWorker
    \/ WorkersStarted
    \/ SendIndex
    \/ CloseChan
    \/ WaitReturn

WorkerStep(w) ==
    \/ Receive(w)
    \/ WorkerExit(w)
    \/ MapElement(w)
    \/ ForEachRead(w)
    \/ ForEachWrite(w)

ParNext ==
    \/ MainStep
    \/ \E w \in Workers : WorkerStep(w)

SpecParallel == ParInit /\ [][ParNext]_vars

\* Whether and when the call returns does not depend on the values of the
\* elements: for termination one input of each length is enough.
FairParInit ==
    /\ ParInit
    /\ \A i \in 1..Len(inputSlice) : inputSlice[i] = 1

\* the Go scheduler runs every goroutine that can take a step
FairSpecParallel ==
    /\ FairParInit
    /\ [][ParNext]_vars
    /\ WF_vars(MainStep)
    /\ \A w \in Workers : WF_vars(WorkerStep(w))

\* ------------------------------------------------------------------------
\* Properties of the parallel executor
\* ------------------------------------------------------------------------
ParDone == pc = "done"

\* C1: when ParallelMap has returned, the returned slice has the length of
\* the input and its element at every position i is mapFunc(inputSlice[i]),
\* whatever the number of workers and their interleaving.
C1_ParallelMapPositional ==
    (ParDone /\ op = "ParallelMap") =>
        /\ Len(result) = Len(inputSlice)
        /\ \A i \in 1..Len(inputSlice) : result[i] = mapFunc(inputSlice[i])
        /\ numWorkers = Min2(numCPU, Len(inputSlice))

C1_Witness ==
    /\ ParDone
    /\ op = "ParallelMap"
    /\ numWorkers >= 2
    /\ Len(result) >= 2
    /\ \E w1, w2 \in Workers : w1 # w2 /\ wk[w1].idx > 0 /\ wk[w2].idx > 0

\* C2: the per-element function never runs twice for a position, and when
\* the call has returned it has run exactly once for every position.
C2_ExactlyOnce ==
    /\ \A i \in 1..Len(inputSlice) : calls[i] <= 1
    /\ ParDone => \A i \in 1..Len(inputSlice) : calls[i] = 1

C2_Witness ==
    /\ ParDone
    /\ op = "ParallelForEach"
    /\ Len(inputSlice) >= 3
    /\ numWorkers >= 2
    /\ \A i \in 1..Len(inputSlice) : calls[i] = 1

\* the send loop is never blocked on a full channel
C3_SendNeverBlocks ==
    (pc = "send" /\ sent < Len(inputSlice)) => Len(inputChan) < chanCap

\* the call returns only after all the work
C3_ReturnsAfterAll ==
    ParDone =>
        /\ \A i \in 1..Len(inputSlice) : calls[i] >= 1
        /\ \A w \in Workers : wk[w].st \in {"unborn", "exit"}
        /\ inputChan = <<>>

\* C3: under fair scheduling the call of ParallelMap or ParallelForEach
\* returns; the send loop is never blocked on a full channel; and the call
\* returns only when every element has been processed, the channel is empty
\* and every worker has left its loop.
C3_Terminates ==
    /\ <>ParDone
    /\ [](C3_SendNeverBlocks /\ C3_ReturnsAfterAll)

C3_Witness ==
    /\ ParDone
    /\ Len(inputSlice) >= 2
    /\ numWorkers >= 2
    /\ \A w \in 1..numWorkers : wk[w].st = "exit"

AboutToWrite(w) == IF wk[w].st = "call" THEN {wk[w].idx} ELSE {}

\* C18: at every point of ParallelMap no two workers write, or are about to
\* write, the same position of the output buffer: the positions delivered
\* to different workers are disjoint, a worker writes only a position
\* delivered to it, and when the call has returned every position has been
\* delivered to exactly one worker.
C18_DisjointSlots ==
    op = "ParallelMap" =>
        /\ \A w1, w2 \in Workers : w1 # w2 =>
              /\ wk[w1].slots \cap wk[w2].slots = {}
              /\ AboutToWrite(w1) \cap AboutToWrite(w2) = {}
        /\ \A w \in Workers : AboutToWrite(w) \subseteq wk[w].slots
        /\ \A i \in 1..Len(inputSlice) :
              calls[i] = 1 => \E w \in Workers : i \in wk[w].slots
        /\ ParDone =>
              \A i \in 1..Len(inputSlice) :
                 Cardinality({w \in Workers : i \in wk[w].slots}) = 1

C18_Witness ==
    /\ op = "ParallelMap"
    /\ Len(inputSlice) >= 3
    /\ \E w1, w2 \in Workers :
          /\ w1 # w2
          /\ wk[w1].st = "call"
          /\ wk[w2].st = "call"
          /\ wk[w1].slots # {wk[w1].idx}
          /\ wk[w1].idx # wk[w2].idx

\* ------------------------------------------------------------------------
\* SafeExcecute and the Safe* operations
\* ------------------------------------------------------------------------
\* longest input of a Safe* operation
MaxSafeLen == 3

\* the nil error, an error returned by the user function for position i,
\* and the values a panic can carry: an error, or a value that is no error
\* (the string of panic("No element provided to Max"))
NoErr == [how |-> "nil", at |-> 0]
ReturnedErr(i) == [how |-> "returned", at |-> i]
PanicErr(i) == [how |-> "panic(error)", at |-> i]
PanicStr(i) == [how |-> "panic(string)", at |-> i]
\* the *runtime.TypeAssertionError raised by r.(error) on a non-error r
TypeAssertionError(r) == [how |-> "TypeAssertionError", at |-> r.at]

IsErrorValue(r) == r.how # "panic(string)"

\* a nil slice and a slice with elements
NilSlice == [nil |-> TRUE, items |-> <<>>]
Slice(items) == [nil |-> FALSE, items |-> items]

\* how the user function can behave on an element:
\* return normally (ok; hit: findFunc returns true), return an error,
\* panic with an error value, panic with a string
Behaviours == {"ok", "hit", "err", "panicErr", "panicStr"}
Failing == {"err", "panicErr", "panicStr"}

\* the result of running a function: it returns (value, err) or it panics
Returns(v, e) == [kind |-> "return", value |-> v, err |-> e]
Panics(r) == [kind |-> "panic", value |-> 0, err |-> r]

\* the user function on position i, where it would return v
UserCall(b, i, v) ==
    CASE b = "err" -> Returns(v, ReturnedErr(i))
      [] b = "panicErr" -> Panics(PanicErr(i))
      [] b = "panicStr" -> Panics(PanicStr(i))
      [] OTHER -> Returns(v, NoErr)

\* SafeExcecute(fn): output, err = fn(); the deferred function recovers a
\* panic r and sets err = r.(error). The assertion itself panics when r is
\* not an error, and that panic leaves SafeExcecute.
SafeExcecute(fn, zero) ==
    IF fn.kind = "return" THEN Returns(fn.value, fn.err)
    ELSE IF IsErrorValue(fn.err) THEN Returns(zero, fn.err)
    ELSE Panics(TypeAssertionError(fn.err))

\* the error of fmt.Errorf("panic: %v\nStack trace:\n%s", err, ...)
WithStackTrace(e) == [how |-> "panic: " \o e.how \o " Stack trace:", at |-> e.at]

\* a wrapper that formats the error of a normal return as well
SafeExcecuteWithStackTrace_FormatsAll(fn, zero) ==
    IF fn.kind = "return" THEN Returns(fn.value, WithStackTrace(fn.err))
    ELSE IF IsErrorValue(fn.err) THEN Returns(zero, WithStackTrace(fn.err))
    ELSE Panics(TypeAssertionError(fn.err))

\* SafeExcecuteWithStackTrace(fn): output, err = fn(); the deferred function
\* recovers a panic r, sets err = r.(error) and wraps it with the stack
\* trace. As in SafeExcecute the assertion panics when r is not an error.
SafeExcecuteWithStackTrace(fn, zero) ==
    IF fn.kind = "return" THEN Returns(fn.value, fn.err)
    ELSE IF IsErrorValue(fn.err) THEN Returns(zero, WithStackTrace(fn.err))
    ELSE Panics(TypeAssertionError(fn.err))

\* reduceFunc of the reductions: the sum
reduceFunc(acc, item) == acc + item

SafeOps == {"SafeExcecute", "SafeExcecuteWithStackTrace", "SafeMap",
            "SafeReduce", "SafeFind", "SafeMapSeq", "SafeReduceSeq",
            "SafeFindSeq"}

\* what the caller has when the call has not returned
NoReturn == [kind |-> "none", value |-> 0, found |-> FALSE, err |-> NoErr]
\* return value, didFind, err
Ret(v, f, e) == [kind |-> "return", value |-> v, found |-> f, err |-> e]
\* a panic leaves the operation
Escapes(r) == [kind |-> "panic", value |-> 0, found |-> FALSE, err |-> r]

ParIdle ==
    /\ op = "none"
    /\ pc = "idle"
    /\ inputSlice = <<>>
    /\ isNil = FALSE
    /\ numCPU = 0
    /\ numWorkers = 0
    /\ spawned = 0
    /\ sent = 0
    /\ inputChan = <<>>
    /\ chanCap = 0
    /\ chanClosed = FALSE
    /\ wg = 0
    /\ outputSlice = <<>>
    /\ wk = <<>>
    /\ calls = <<>>
    /\ accWrites = <<0>>
    /\ result = <<>>

SafeInit ==
    /\ SeqIdle
    /\ ParIdle
    /\ SliceIdle
    /\ sOp \in SafeOps
    /\ sInput \in SeqsUpTo(Values, MaxSafeLen)
    /\ sOp \in {"SafeExcecute", "SafeExcecuteWithStackTrace"} => Len(sInput) = 1
    /\ behav \in [1..Len(sInput) -> Behaviours]
    /\ stopFirst \in BOOLEAN
    /\ stopFirst => sOp = "SafeMapSeq"
    /\ sPc = "run"
    /\ sIdx = 1
    /\ invoked = [i \in 1..Len(sInput) |-> 0]
    /\ sOut = IF sOp \in {"SafeReduce", "SafeReduceSeq"} THEN 0
              ELSE IF sOp = "SafeMap" THEN [i \in 1..Len(sInput) |-> 0]
              ELSE <<>>
    /\ sRet = NoReturn

\* the call of the user function on the current element through SafeExcecute
CallOn(i, v, zero) == SafeExcecute(UserCall(behav[i], i, v), zero)

InLoop(o) == sOp = o /\ sPc = "run" /\ sIdx <= Len(sInput)
LoopEnd(o) == sOp = o /\ sPc = "run" /\ sIdx > Len(sInput)

\* a direct call SafeExcecute(fn)
SafeExcecuteCall ==
    /\ UNCHANGED notSafe
    /\ InLoop("SafeExcecute")
    /\ LET r == CallOn(1, mapFunc(sInput[1]), 0)
       IN sRet' = IF r.kind = "panic" THEN Escapes(r.err)
                  ELSE Ret(r.value, FALSE, r.err)
    /\ invoked' = [invoked EXCEPT ![1] = @ + 1]
    /\ sPc' = "done"
    /\ UNCHANGED <<sOp, sInput, behav, stopFirst, sIdx, sOut>>

\* a direct call SafeExcecuteWithStackTrace(fn)
SafeExcecuteWithStackTraceCall ==
    /\ UNCHANGED notSafe
    /\ InLoop("SafeExcecuteWithStackTrace")
    /\ LET r == SafeExcecuteWithStackTrace(
                    UserCall(behav[1], 1, mapFunc(sInput[1])), 0)
       IN sRet' = IF r.kind = "panic" THEN Escapes(r.err)
                  ELSE Ret(r.value, FALSE, r.err)
    /\ invoked' = [invoked EXCEPT ![1] = @ + 1]
    /\ sPc' = "done"
    /\ UNCHANGED <<sOp, sInput, behav, stopFirst, sIdx, sOut>>

\* SafeMap: one iteration of the loop
SafeMapStep ==
    /\ UNCHANGED notSafe
    /\ InLoop("SafeMap")
    /\ invoked' = [invoked EXCEPT ![sIdx] = @ + 1]
    /\ LET r == CallOn(sIdx, mapFunc(sInput[sIdx]), 0)
       IN IF r.kind = "panic"
          THEN sRet' = Escapes(r.err) /\ sPc' = "done" /\ UNCHANGED <<sOut, sIdx>>
          ELSE IF r.err # NoErr
          THEN sRet' = Ret(NilSlice, FALSE, r.err) /\ sPc' = "done"
               /\ UNCHANGED <<sOut, sIdx>>
          ELSE sOut' = [sOut EXCEPT ![sIdx] = r.value] /\ sIdx' = sIdx + 1
               /\ UNCHANGED <<sRet, sPc>>
    /\ UNCHANGED <<sOp, sInput, behav, stopFirst>>

\* SafeMap: return outputSlice, nil
SafeMapReturn ==
    /\ UNCHANGED notSafe
    /\ LoopEnd("SafeMap")
    /\ sRet' = Ret(Slice(sOut), FALSE, NoErr)
    /\ sPc' = "done"
    /\ UNCHANGED <<sOp, sInput, behav, stopFirst, sIdx, invoked, sOut>>

\* SafeReduce: one iteration; on an error it returns accumAux with it
SafeReduceStep ==
    /\ UNCHANGED notSafe
    /\ InLoop("SafeReduce")
    /\ invoked' = [invoked EXCEPT ![sIdx] = @ + 1]
    /\ LET r == CallOn(sIdx, reduceFunc(sOut, sInput[sIdx]), 0)
       IN IF r.kind = "panic"
          THEN sRet' = Escapes(r.err) /\ sPc' = "done" /\ UNCHANGED <<sOut, sIdx>>
          ELSE IF r.err # NoErr
          THEN sRet' = Ret(r.value, FALSE, r.err) /\ sPc' = "done"
               /\ UNCHANGED <<sOut, sIdx>>
          ELSE sOut' = r.value /\ sIdx' = sIdx + 1 /\ UNCHANGED <<sRet, sPc>>
    /\ UNCHANGED <<sOp, sInput, behav, stopFirst>>

\* SafeReduce: return accumulator, nil
SafeReduceReturn ==
    /\ UNCHANGED notSafe
    /\ LoopEnd("SafeReduce")
    /\ sRet' = Ret(sOut, FALSE, NoErr)
    /\ sPc' = "done"
    /\ UNCHANGED <<sOp, sInput, behav, stopFirst, sIdx, invoked, sOut>>

\* SafeFind: one iteration
SafeFindStep ==
    /\ UNCHANGED notSafe
    /\ InLoop("SafeFind")
    /\ invoked' = [invoked EXCEPT ![sIdx] = @ + 1]
    /\ LET r == CallOn(sIdx, behav[sIdx] = "hit", FALSE)
       IN IF r.kind = "panic"
          THEN sRet' = Escapes(r.err) /\ sPc' = "done" /\ UNCHANGED sIdx
          ELSE IF r.err # NoErr
          THEN sRet' = Ret(0, FALSE, r.err) /\ sPc' = "done" /\ UNCHANGED sIdx
          ELSE IF r.value
          THEN sRet' = Ret(sInput[sIdx], TRUE, NoErr) /\ sPc' = "done"
               /\ UNCHANGED sIdx
          ELSE sIdx' = sIdx + 1 /\ UNCHANGED <<sRet, sPc>>
    /\ UNCHANGED <<sOp, sInput, behav, stopFirst, sOut>>

\* SafeFind: return foundItem, false, nil
SafeFindReturn ==
    /\ UNCHANGED notSafe
    /\ LoopEnd("SafeFind")
    /\ sRet' = Ret(0, FALSE, NoErr)
    /\ sPc' = "done"
    /\ UNCHANGED <<sOp, sInput, behav, stopFirst, sIdx, invoked, sOut>>

\* the consumer's yield: it takes the element and answers whether to go on
ConsumerContinues == ~stopFirst

\* SafeMapSeq: the returned sequence being driven, one element of the
\* input sequence. On an error the function returns: the sequence ends.
SafeMapSeqStep ==
    /\ UNCHANGED notSafe
    /\ InLoop("SafeMapSeq")
    /\ invoked' = [invoked EXCEPT ![sIdx] = @ + 1]
    /\ LET r == CallOn(sIdx, mapFunc(sInput[sIdx]), 0)
       IN IF r.kind = "panic"
          THEN sRet' = Escapes(r.err) /\ sPc' = "done" /\ UNCHANGED <<sOut, sIdx>>
          ELSE IF r.err # NoErr
          THEN sRet' = Ret(Slice(sOut), FALSE, NoErr) /\ sPc' = "done"
               /\ UNCHANGED <<sOut, sIdx>>
          ELSE /\ sOut' = Append(sOut, r.value)
               /\ IF ConsumerContinues
                  THEN sIdx' = sIdx + 1 /\ UNCHANGED <<sRet, sPc>>
                  ELSE sRet' = Ret(Slice(sOut'), FALSE, NoErr) /\ sPc' = "done"
                       /\ UNCHANGED sIdx
    /\ UNCHANGED <<sOp, sInput, behav, stopFirst>>

\* SafeMapSeq: the input sequence has ended
SafeMapSeqEnd ==
    /\ UNCHANGED notSafe
    /\ LoopEnd("SafeMapSeq")
    /\ sRet' = Ret(Slice(sOut), FALSE, NoErr)
    /\ sPc' = "done"
    /\ UNCHANGED <<sOp, sInput, behav, stopFirst, sIdx, invoked, sOut>>

\* SafeReduceSeq: one element; on an error it returns result (the
\* accumulator before the element) with it
SafeReduceSeqStep ==
    /\ UNCHANGED notSafe
    /\ InLoop("SafeReduceSeq")
    /\ invoked' = [invoked EXCEPT ![sIdx] = @ + 1]
    /\ LET r == CallOn(sIdx, reduceFunc(sOut, sInput[sIdx]), 0)
       IN IF r.kind = "panic"
          THEN sRet' = Escapes(r.err) /\ sPc' = "done" /\ UNCHANGED <<sOut, sIdx>>
          ELSE IF r.err # NoErr
          THEN sRet' = Ret(sOut, FALSE, r.err) /\ sPc' = "done"
               /\ UNCHANGED <<sOut, sIdx>>
          ELSE sOut' = r.value /\ sIdx' = sIdx + 1 /\ UNCHANGED <<sRet, sPc>>
    /\ UNCHANGED <<sOp, sInput, behav, stopFirst>>

SafeReduceSeqReturn ==
    /\ UNCHANGED notSafe
    /\ LoopEnd("SafeReduceSeq")
    /\ sRet' = Ret(sOut, FALSE, NoErr)
    /\ sPc' = "done"
    /\ UNCHANGED <<sOp, sInput, behav, stopFirst, sIdx, invoked, sOut>>

\* SafeFindSeq: one element
SafeFindSeqStep ==
    /\ UNCHANGED notSafe
    /\ InLoop("SafeFindSeq")
    /\ invoked' = [invoked EXCEPT ![sIdx] = @ + 1]
    /\ LET r == CallOn(sIdx, behav[sIdx] = "hit", FALSE)
       IN IF r.kind = "panic"
          THEN sRet' = Escapes(r.err) /\ sPc' = "done" /\ UNCHANGED sIdx
          ELSE IF r.err # NoErr
          THEN sRet' = Ret(0, FALSE, r.err) /\ sPc' = "done" /\ UNCHANGED sIdx
          ELSE IF r.value
          THEN sRet' = Ret(sInput[sIdx], TRUE, NoErr) /\ sPc' = "done"
               /\ UNCHANGED sIdx
          ELSE sIdx' = sIdx + 1 /\ UNCHANGED <<sRet, sPc>>
    /\ UNCHANGED <<sOp, sInput, behav, stopFirst, sOut>>

SafeFindSeqReturn ==
    /\ UNCHANGED notSafe
    /\ LoopEnd("SafeFindSeq")
    /\ sRet' = Ret(0, FALSE, NoErr)
    /\ sPc' = "done"
    /\ UNCHANGED <<sOp, sInput, behav, stopFirst, sIdx, invoked, sOut>>

SafeNext ==
    \/ SafeExcecuteCall
    \/ SafeExcecuteWithStackTraceCall
    \/ SafeMapStep
    \/ SafeMapReturn
    \/ SafeReduceStep
    \/ SafeReduceReturn
    \/ SafeFindStep
    \/ SafeFindReturn
    \/ SafeMapSeqStep
    \/ SafeMapSeqEnd
    \/ SafeReduceSeqStep
    \/ SafeReduceSeqReturn
    \/ SafeFindSeqStep
    \/ SafeFindSeqReturn

SpecSafe == SafeInit /\ [][SafeNext]_vars

\* ------------------------------------------------------------------------
\* Properties of SafeExcecute and the Safe* operations
\* ------------------------------------------------------------------------
SafeDone == sPc = "done"

\* the user function ran on position i and returned an error or panicked
FailedAt(i) == invoked[i] > 0 /\ behav[i] \in Failing

\* the first position, in input order, on which the user function fails
\* when the loop gets there (0 when there is none)
FirstFailure ==
    LET stops(i) == behav[i] \in Failing \/ (sOp = "SafeFind" /\ behav[i] = "hit")
        F == {i \in 1..Len(sInput) :
                 behav[i] \in Failing /\ \A j \in 1..(i - 1) : ~stops(j)}
    IN IF F = {} THEN 0 ELSE CHOOSE i \in F : TRUE

\* C4: when the function given to SafeExcecute panics, with an error value
\* or with a value that is no error, SafeExcecute returns a non-nil error
\* and the zero value, and no panic leaves it.
C4_FaultBecomesError ==
    (SafeDone /\ sOp = "SafeExcecute" /\ behav[1] \in {"panicErr", "panicStr"}) =>
        /\ sRet.kind = "return"
        /\ sRet.err # NoErr
        /\ sRet.value = 0

\* C9: in every Safe* operation, when the user function returned an error
\* or panicked on an element, the caller does not get a normal return with
\* a nil error (which is what it gets when the source simply ended).
C9_ErrorsNotSwallowed ==
    (SafeDone /\ \E i \in 1..Len(sInput) : FailedAt(i)) =>
        ~(sRet.kind = "return" /\ sRet.err = NoErr)

\* C10: SafeMap, SafeReduce and SafeFind stop at the first failing element:
\* no later element is given to the user function, the call returns the
\* error of that element, and SafeMap returns a nil slice with it.
C10_StopAtFirstFailure ==
    (SafeDone /\ sOp \in {"SafeMap", "SafeReduce", "SafeFind"} /\ FirstFailure > 0) =>
        /\ \A j \in 1..Len(sInput) : j > FirstFailure => invoked[j] = 0
        /\ invoked[FirstFailure] = 1
        /\ sRet.kind = "return"
        /\ sRet.err # NoErr
        /\ sRet.err.at = FirstFailure
        /\ sOp = "SafeMap" => sRet.value = NilSlice

\* C17: when the wrapped function completes normally, SafeExcecute and
\* SafeExcecuteWithStackTrace return exactly the value and the error the
\* function returned: nothing is replaced, wrapped or zeroed.
C17_NormalReturnPassesThrough ==
    (SafeDone /\ sOp \in {"SafeExcecute", "SafeExcecuteWithStackTrace"}
        /\ behav[1] \in {"ok", "hit", "err"}) =>
        /\ sRet.kind = "return"
        /\ sRet.value = mapFunc(sInput[1])
        /\ sRet.err = (IF behav[1] = "err" THEN ReturnedErr(1) ELSE NoErr)

C17_Witness ==
    /\ SafeDone
    /\ sOp = "SafeExcecuteWithStackTrace"
    /\ behav[1] = "err"
    /\ invoked[1] = 1
    /\ sRet.value # 0
    /\ sRet.err = ReturnedErr(1)

\* ------------------------------------------------------------------------
\* The slice helpers
\* ------------------------------------------------------------------------
\* longest slice given to a slice helper
MaxSliceLen == 4

\* element values of the slices
SliceValues == {1, 2, 3}

\* a loop that removes one occurrence more than the limit
Removes_OneMore(e, elem, limit, count) == e = elem /\ (limit = -1 \/ count <= limit)

\* if e == element && (limit == -1 || count < limit)
Removes(e, elem, limit, count) == e = elem /\ (limit = -1 \/ count < limit)

RECURSIVE RemoveLoop(_, _, _, _, _, _)
\* for _, e := range slice { ... }: iteration i of the loop over the array
\* arr, which compacts the kept elements to the front of the same array;
\* the result is the array and newSliceLen
RemoveLoop(arr, elem, limit, i, count, newSliceLen) ==
    IF i > Len(arr) THEN [arr |-> arr, len |-> newSliceLen]
    ELSE LET e == arr[i]
         IN IF Removes(e, elem, limit, count)
            THEN RemoveLoop(arr, elem, limit, i + 1, count + 1, newSliceLen)
            ELSE RemoveLoop([arr EXCEPT ![newSliceLen + 1] = e], elem, limit,
                            i + 1, count, newSliceLen + 1)

\* RemoveElement(slice, element, occurrencesToDelete): the array after the
\* call and the length of the returned slice[:newSliceLen]
RemoveElement(slice, elem, occ) ==
    IF Len(slice) = 0 THEN [arr |-> slice, len |-> 0]
    ELSE IF ~occ.nil /\ occ.val <= 0 THEN [arr |-> slice, len |-> Len(slice)]
    ELSE RemoveLoop(slice, elem, IF occ.nil THEN -1 ELSE occ.val, 1, 0, 0)

\* the slice s[:n]
Prefix(s, n) == SubSeq(s, 1, n)

\* longest second slice given to Difference
MaxOtherLen == 2

\* the weights and the ranks the user functions of WeightedSort give a value
Weights == {0, 1}

\* the filterFunc of TestFilterSeq and TestFilter
filterFunc(item) == item % 2 = 0

RECURSIVE FilterLoop(_, _, _)
\* Filter: for _, input := range inputSlice { if filterFunc(input) {
\* inputSlice[newSliceLen] = input; newSliceLen++ } }, from iteration i
FilterLoop(arr, i, newSliceLen) ==
    IF i > Len(arr) THEN [arr |-> arr, len |-> newSliceLen]
    ELSE LET input == arr[i]
         IN IF filterFunc(input)
            THEN FilterLoop([arr EXCEPT ![newSliceLen + 1] = input], i + 1,
                            newSliceLen + 1)
            ELSE FilterLoop(arr, i + 1, newSliceLen)

\* Filter(inputSlice, filterFunc): the array after the call and the length
\* of the returned inputSlice[:newSliceLen]
Filter(inputSlice_) == FilterLoop(inputSlice_, 1, 0)

\* the end of a chunk that always runs to the end of the slice
ChunkEnd_ToLen(i, size, length) == length

\* end := i + chunkSize; if end > len(slice) { end = len(slice) }
ChunkEnd(i, size, length) == IF i + size > length THEN length ELSE i + size

RECURSIVE ChunkLoop(_, _, _, _)
\* for i := 0; i < len(slice); i += chunkSize {
\*     chunks = append(chunks, slice[i:end]) }
ChunkLoop(slice, size, i, chunks) ==
    IF ~(i < Len(slice)) THEN chunks
    ELSE LET end == ChunkEnd(i, size, Len(slice))
         IN ChunkLoop(slice, size, i + size,
                      Append(chunks, SubSeq(slice, i + 1, end)))

\* Chunk(slice, chunkSize)
Chunk(slice, size) ==
    IF size <= 0 \/ Len(slice) = 0 THEN <<>> ELSE ChunkLoop(slice, size, 0, <<>>)

\* a lookup that never finds the item
Seen_Never(seenItems, item) == FALSE

\* _, seen := seenItems[item]
Seen(seenItems, item) == item \in seenItems

RECURSIVE DistinctLoop(_, _, _, _)
\* Distinct: for _, item := range slice { if seen { continue };
\* seenItems[item] = struct{}{}; slice[newSliceLen] = item; newSliceLen++ }
DistinctLoop(arr, i, seenItems, newSliceLen) ==
    IF i > Len(arr) THEN [arr |-> arr, len |-> newSliceLen]
    ELSE LET item == arr[i]
         IN IF Seen(seenItems, item)
            THEN DistinctLoop(arr, i + 1, seenItems, newSliceLen)
            ELSE DistinctLoop([arr EXCEPT ![newSliceLen + 1] = item], i + 1,
                              seenItems \cup {item}, newSliceLen + 1)

\* Distinct(slice): the array after the call and the length of the
\* returned slice[:newSliceLen]
Distinct(slice) == DistinctLoop(slice, 1, {}, 0)

\* a set that holds the first item of b only
SetOf_FirstOnly(other) == IF other = <<>> THEN {} ELSE {other[1]}

\* set := make(map[I]struct{}); for _, item := range b { set[item] = struct{}{} }
SetOf(other) == {other[i] : i \in 1..Len(other)}

RECURSIVE DifferenceLoop(_, _, _, _)
\* Difference: for _, item := range a { if exists { continue };
\* a[newSliceLen] = item; newSliceLen++ }
DifferenceLoop(arr, set, i, newSliceLen) ==
    IF i > Len(arr) THEN [arr |-> arr, len |-> newSliceLen]
    ELSE LET item == arr[i]
         IN IF item \in set
            THEN DifferenceLoop(arr, set, i + 1, newSliceLen)
            ELSE DifferenceLoop([arr EXCEPT ![newSliceLen + 1] = item], set,
                                i + 1, newSliceLen + 1)

\* Difference(a, b): the array of a after the call and the length of the
\* returned a[:newSliceLen]
Difference(sliceA, other) == DifferenceLoop(sliceA, SetOf(other), 1, 0)

\* the comparison WeightedSort hands to sort.Slice, on two elements: by
\* weight when the weights differ, by less otherwise
WeightedLess(weigh, rank, x, y) ==
    IF weigh[x] # weigh[y] THEN weigh[x] < weigh[y] ELSE rank[x] < rank[y]

\* the rearrangements of slice
Rearrangements(slice) ==
    LET n == Len(slice)
        P == {f \in [1..n -> 1..n] : \A i, j \in 1..n : f[i] = f[j] => i = j}
    IN {[i \in 1..n |-> slice[f[i]]] : f \in P}

\* sort.Slice(slice, less): the slice is left sorted by less; the order of
\* elements that less does not order is not specified ("the sort is not
\* guaranteed to be stable"), so every sorted rearrangement is an outcome
SortSlice(slice, weigh, rank) ==
    {p \in Rearrangements(slice) :
        \A i, j \in 1..Len(p) : i < j => ~WeightedLess(weigh, rank, p[j], p[i])}

\* slice[i] of a slice of the given length is in range
InRange(i, length) == 0 <= i /\ i < length

RECURSIVE ReverseLoop(_, _)
\* Reverse: for i := 0; i <= len(slice)/2; i++ { j := len(slice) - i - 1;
\* slice[i], slice[j] = slice[j], slice[i] }, from iteration i (i and j
\* count from 0). An index out of range panics before anything is written.
ReverseLoop(arr, i) ==
    IF ~(i <= Len(arr) \div 2) THEN [arr |-> arr, panics |-> FALSE]
    ELSE LET j == Len(arr) - i - 1
         IN IF ~InRange(i, Len(arr)) \/ ~InRange(j, Len(arr))
            THEN [arr |-> arr, panics |-> TRUE]
            ELSE ReverseLoop([arr EXCEPT ![i + 1] = arr[j + 1],
                                         ![j + 1] = arr[i + 1]], i + 1)

\* Reverse(slice): the array after the call, which is the slice returned,
\* and whether the call panicked
Reverse(slice) == ReverseLoop(slice, 0)

\* the arguments a call does not take
NoElement == element = 0 /\ occurrencesToDelete = NilPtr
NoWeights == getWeighfn = <<>> /\ lessRank = <<>>
NoChunkSize == chunkSize = 0
NoSliceB == sliceB = <<>>

SliceInit ==
    /\ SeqIdle
    /\ ParIdle
    /\ SafeIdle
    /\ slPc = "call"
    /\ slIn \in SeqsUpTo(SliceValues, MaxSliceLen)
    /\ backing = slIn
    /\ ret = <<>>
    /\ again = <<>>
    /\ \/ /\ slFn = "RemoveElement"
          /\ element \in SliceValues
          /\ occurrencesToDelete \in
                {NilPtr} \cup {PtrTo(k) : k \in -2..(MaxSliceLen + 1)}
          /\ NoWeights /\ NoChunkSize /\ NoSliceB
       \/ /\ slFn = "WeightedSort"
          /\ getWeighfn \in [SliceValues -> Weights]
          /\ lessRank \in [SliceValues -> Weights]
          /\ NoElement /\ NoChunkSize /\ NoSliceB
       \/ /\ slFn = "Filter"
          /\ NoElement /\ NoWeights /\ NoChunkSize /\ NoSliceB
       \/ /\ slFn = "Chunk"
          /\ chunkSize \in -1..(MaxSliceLen + 1)
          /\ NoElement /\ NoWeights /\ NoSliceB
       \/ /\ slFn = "Distinct"
          /\ NoElement /\ NoWeights /\ NoChunkSize /\ NoSliceB
       \/ /\ slFn = "Difference"
          /\ sliceB \in SeqsUpTo(SliceValues, MaxOtherLen)
          /\ NoElement /\ NoWeights /\ NoChunkSize
       \/ /\ slFn = "Reverse"
          /\ NoElement /\ NoWeights /\ NoChunkSize /\ NoSliceB

\* the arguments of the call
sliceArgs == <<slFn, slIn, element, occurrencesToDelete, getWeighfn, lessRank,
               chunkSize, sliceB>>

CallRemoveElement ==
    /\ UNCHANGED notSlice
    /\ slFn = "RemoveElement"
    /\ slPc = "call"
    /\ LET r == RemoveElement(backing, element, occurrencesToDelete)
       IN /\ backing' = r.arr
          /\ ret' = Prefix(r.arr, r.len)
    /\ slPc' = "done"
    /\ UNCHANGED <<sliceArgs, again>>

\* WeightedSort sorts the caller's slice in place and returns it
CallWeightedSort ==
    /\ UNCHANGED notSlice
    /\ slFn = "WeightedSort"
    /\ slPc = "call"
    /\ \E sorted \in SortSlice(backing, getWeighfn, lessRank) :
          /\ backing' = sorted
          /\ ret' = sorted
    /\ slPc' = "done"
    /\ UNCHANGED <<sliceArgs, again>>

CallFilter ==
    /\ UNCHANGED notSlice
    /\ slFn = "Filter"
    /\ slPc = "call"
    /\ LET r == Filter(backing)
       IN /\ backing' = r.arr
          /\ ret' = Prefix(r.arr, r.len)
    /\ slPc' = "done"
    /\ UNCHANGED <<sliceArgs, again>>

\* the chunks are slices slice[i:end] of the caller's array, which Chunk
\* does not write
CallChunk ==
    /\ UNCHANGED notSlice
    /\ slFn = "Chunk"
    /\ slPc = "call"
    /\ ret' = Chunk(backing, chunkSize)
    /\ slPc' = "done"
    /\ UNCHANGED <<sliceArgs, backing, again>>

CallDistinct ==
    /\ UNCHANGED notSlice
    /\ slFn = "Distinct"
    /\ slPc = "call"
    /\ LET r == Distinct(backing)
       IN /\ backing' = r.arr
          /\ ret' = Prefix(r.arr, r.len)
    /\ slPc' = "done"
    /\ UNCHANGED <<sliceArgs, again>>

\* Distinct(Distinct(x)): the second call is given the slice the first
\* returned, which is the front of the same array
CallDistinctAgain ==
    /\ UNCHANGED notSlice
    /\ slFn = "Distinct"
    /\ slPc = "done"
    /\ LET r == Distinct(ret)
       IN /\ backing' = [i \in 1..Len(backing) |->
                            IF i <= Len(ret) THEN r.arr[i] ELSE backing[i]]
          /\ again' = Prefix(r.arr, r.len)
    /\ slPc' = "twice"
    /\ UNCHANGED <<sliceArgs, ret>>

CallDifference ==
    /\ UNCHANGED notSlice
    /\ slFn = "Difference"
    /\ slPc = "call"
    /\ LET r == Difference(backing, sliceB)
       IN /\ backing' = r.arr
          /\ ret' = Prefix(r.arr, r.len)
    /\ slPc' = "done"
    /\ UNCHANGED <<sliceArgs, again>>

\* Reverse swaps in the caller's array and returns the slice; a panic
\* leaves the call without a return
CallReverse ==
    /\ UNCHANGED notSlice
    /\ slFn = "Reverse"
    /\ slPc = "call"
    /\ LET r == Reverse(backing)
       IN /\ backing' = r.arr
          /\ ret' = IF r.panics THEN ret ELSE r.arr
          /\ slPc' = IF r.panics THEN "panicked" ELSE "done"
    /\ UNCHANGED <<sliceArgs, again>>

SliceNext ==
    \/ CallRemoveElement
    \/ CallWeightedSort
    \/ CallFilter
    \/ CallChunk
    \/ CallDistinct
    \/ CallDistinctAgain
    \/ CallDifference
    \/ CallReverse

SpecSlices == SliceInit /\ [][SliceNext]_vars

\* ------------------------------------------------------------------------
\* Properties of the slice helpers
\* ------------------------------------------------------------------------
SliceDone == slPc = "done"

RECURSIVE Count(_, _)
\* the number of occurrences of v in s
Count(s, v) ==
    IF s = <<>> THEN 0
    ELSE (IF Head(s) = v THEN 1 ELSE 0) + Count(Tail(s), v)

RECURSIVE DeleteLeftmost(_, _, _)
\* s without its k leftmost occurrences of v (without all, when fewer)
DeleteLeftmost(s, v, k) ==
    IF s = <<>> THEN <<>>
    ELSE IF Head(s) = v /\ k > 0 THEN DeleteLeftmost(Tail(s), v, k - 1)
    ELSE <<Head(s)>> \o DeleteLeftmost(Tail(s), v, k)

MaxOf(a, b) == IF a > b THEN a ELSE b

\* C6: RemoveElement with a negative count removes every occurrence of the
\* element, as it does with a nil count.
C6_NegativeRemovesAll ==
    (SliceDone /\ slFn = "RemoveElement" /\ ~occurrencesToDelete.nil
        /\ occurrencesToDelete.val < 0) =>
        /\ Count(ret, element) = 0
        /\ ret = DeleteLeftmost(slIn, element, Len(slIn))

\* C7: RemoveElement with a count k >= 0 returns the input without the
\* min(k, count) leftmost occurrences of the element: max(0, count - k)
\* occurrences are left and all remaining elements keep their order.
C7_RemovesLeftmostK ==
    (SliceDone /\ slFn = "RemoveElement" /\ ~occurrencesToDelete.nil
        /\ occurrencesToDelete.val >= 0) =>
        /\ ret = DeleteLeftmost(slIn, element, occurrencesToDelete.val)
        /\ Count(ret, element) =
              MaxOf(0, Count(slIn, element) - occurrencesToDelete.val)

C7_Witness ==
    /\ SliceDone
    /\ slFn = "RemoveElement"
    /\ ~occurrencesToDelete.nil
    /\ occurrencesToDelete.val >= 1
    /\ Count(slIn, element) > occurrencesToDelete.val
    /\ Count(ret, element) >= 1
    /\ Len(ret) > Count(ret, element)
    /\ Len(ret) < Len(slIn)

\* s with only its elements in the set S, in order
Restrict(s, S) == SelectSeq(s, LAMBDA v : v \in S)

\* ret holds the elements of slIn, each as often as slIn does
SameElements(s, t) == Len(s) = Len(t) /\ \A v \in SliceValues : Count(s, v) = Count(t, v)

\* neither the weights nor less order x and y
Unordered(x, y) ==
    /\ ~WeightedLess(getWeighfn, lessRank, x, y)
    /\ ~WeightedLess(getWeighfn, lessRank, y, x)

\* the result of WeightedSort is a rearrangement of the input in ascending
\* order of weight and, among equal weights, in the order of less
WeightedSortOrdered ==
    (SliceDone /\ slFn = "WeightedSort") =>
        /\ SameElements(ret, slIn)
        /\ \A i, j \in 1..Len(ret) : i < j =>
              /\ getWeighfn[ret[i]] <= getWeighfn[ret[j]]
              /\ getWeighfn[ret[i]] = getWeighfn[ret[j]] =>
                    ~(lessRank[ret[j]] < lessRank[ret[i]])

\* C11: WeightedSort returns a rearrangement of its input ordered by
\* weight, then by less, and the ordering is stable: elements of equal
\* weight that less does not order keep the relative order of the input.
C11_WeightedSortStable ==
    (SliceDone /\ slFn = "WeightedSort") =>
        /\ WeightedSortOrdered
        /\ \A x, y \in SliceValues :
              Unordered(x, y) => Restrict(ret, {x, y}) = Restrict(slIn, {x, y})

\* C12: Filter does not modify its input: after the call every position of
\* the caller's slice holds the element it held before.
C12_FilterKeepsInput ==
    (SliceDone /\ slFn = "Filter") => backing = slIn

RECURSIVE Concat(_)
\* the concatenation of the sequences of ss
Concat(ss) == IF ss = <<>> THEN <<>> ELSE Head(ss) \o Concat(Tail(ss))

\* the least n with n * d >= m
CeilDiv(m, d) == CHOOSE n \in 0..m : n * d >= m /\ \A k \in 0..(n - 1) : k * d < m

\* C13: for a non-empty slice and a chunk size > 0 the chunks of Chunk,
\* concatenated in order, are the input; every chunk but the last has
\* exactly chunkSize elements and the last has between 1 and chunkSize; there
\* are ceil(len / chunkSize) chunks.
C13_ChunkPartition ==
    (SliceDone /\ slFn = "Chunk" /\ Len(slIn) > 0 /\ chunkSize > 0) =>
        /\ Concat(ret) = slIn
        /\ \A c \in 1..(Len(ret) - 1) : Len(ret[c]) = chunkSize
        /\ Len(ret) >= 1
        /\ Len(ret[Len(ret)]) \in 1..chunkSize
        /\ Len(ret) = CeilDiv(Len(slIn), chunkSize)

C13_Witness ==
    /\ SliceDone
    /\ slFn = "Chunk"
    /\ chunkSize > 1
    /\ Len(ret) >= 2
    /\ Len(ret[Len(ret)]) < chunkSize
    /\ Concat(ret) = slIn

\* the position of the first occurrence of v in s
FirstIndex(s, v) == CHOOSE i \in 1..Len(s) : s[i] = v /\ \A k \in 1..(i - 1) : s[k] # v

\* C14: Distinct(x) holds every value of x exactly once, in the order of
\* the first occurrences in x, and Distinct(Distinct(x)) = Distinct(x).
C14_DistinctOnceIdempotent ==
    (slFn = "Distinct" /\ slPc \in {"done", "twice"}) =>
        /\ \A v \in SliceValues :
              Count(ret, v) = (IF Count(slIn, v) > 0 THEN 1 ELSE 0)
        /\ \A i, j \in 1..Len(ret) :
              i < j => FirstIndex(slIn, ret[i]) < FirstIndex(slIn, ret[j])
        /\ slPc = "twice" => again = ret

C14_Witness ==
    /\ slFn = "Distinct"
    /\ slPc = "twice"
    /\ Len(ret) >= 2
    /\ Len(ret) < Len(slIn)
    /\ ret # Prefix(slIn, Len(ret))
    /\ again = ret

RECURSIVE KeepAbsent(_, _)
\* the elements of s that do not occur in other, in the order of s
KeepAbsent(s, other) ==
    IF s = <<>> THEN <<>>
    ELSE (IF Count(other, Head(s)) = 0 THEN <<Head(s)>> ELSE <<>>)
             \o KeepAbsent(Tail(s), other)

\* C15: Difference(a, b) returns exactly the elements of a, as often as a
\* holds them, whose value does not occur in b, in the order of a.
C15_DifferenceKeepsAbsent ==
    (SliceDone /\ slFn = "Difference") =>
        /\ ret = KeepAbsent(slIn, sliceB)
        /\ \A v \in SliceValues :
              Count(ret, v) = (IF Count(sliceB, v) = 0 THEN Count(slIn, v) ELSE 0)

C15_Witness ==
    /\ SliceDone
    /\ slFn = "Difference"
    /\ Len(sliceB) = 2
    /\ sliceB[1] # sliceB[2]
    /\ Count(slIn, sliceB[1]) > 0
    /\ Count(slIn, sliceB[2]) > 0
    /\ \E v \in SliceValues : Count(ret, v) = 2
    /\ ret # Prefix(slIn, Len(ret))

\* ret is s with its elements in the opposite order
IsReversed(s) ==
    /\ Len(ret) = Len(s)
    /\ \A i \in 1..Len(s) : ret[i] = s[Len(s) - i + 1]

\* on a slice of odd length Reverse returns the reversed slice
ReverseOddLengths ==
    (slFn = "Reverse" /\ slPc # "call" /\ Len(slIn) % 2 = 1) =>
        SliceDone /\ IsReversed(slIn)

\* C21: for a slice of any length, the empty slice and the even lengths
\* included, Reverse returns, without a panic, a slice of the same length
\* whose element at position i is the element of the input at len-1-i.
C21_ReverseAllLengths ==
    (slFn = "Reverse" /\ slPc # "call") => SliceDone /\ IsReversed(slIn)

\* ------------------------------------------------------------------------
\* The lazy sequences: a pipeline of stages between a source and a consumer
\* ------------------------------------------------------------------------
\* longest source sequence
MaxSeqLen == 3
\* most stages in a pipeline
MaxStages == 2

\* the stages that take and return an iter.Seq
SeqKinds == {"MapSeq", "FilterSeq", "RemoveElementSeq", "RemoveElementsSeq",
             "DistinctSeq", "UnionSeq", "IntersectionSeq", "DifferenceSeq"}
\* Ennumerate and GroupBySeq return an iter.Seq2, which no stage takes: they
\* can only be last
Seq2Kinds == {"Ennumerate", "GroupBySeq"}
StageKinds == SeqKinds \cup Seq2Kinds

\* the pipelines: up to n stages
Pipelines(n) ==
    {c \in SeqsUpTo(StageKinds, n) :
        \A k \in 1..Len(c) : c[k] \in Seq2Kinds => k = Len(c)}

\* the second input of UnionSeq(upstream, aux) and DifferenceSeq(upstream, aux)
\* and the first input of IntersectionSeq(aux, upstream)
AuxSrc == <<2, 3>>

\* the arguments of RemoveElementSeq(seq, element, occurrencesToDelete)
\* and RemoveElementsSeq(seq, elements...)
RemoveArgs == [element |-> 2, occurrencesToDelete |-> 1]
RemoveElementsArgs == {1}

\* math.MaxInt (its value where int has 32 bits) stands for "all" in
\* RemoveElementSeq; no source is that long
MaxInt == 2147483647

\* limit := occurrencesToDelete; if limit == -1 { limit = math.MaxInt }
RemoveLimit(n) == IF n = -1 THEN MaxInt ELSE n

RangeOf(q) == {q[i] : i \in 1..Len(q)}

\* the keyFunc of TestGroupBySeq
keyFunc(item) == IF item % 2 = 0 THEN "even" ELSE "odd"
Keys == {"even", "odd"}

\* groups := make(map[K][]I); a key is in the map when its slice has elements
NoGroups == [key \in Keys |-> <<>>]
KeysOf(groups) == {key \in Keys : groups[key] # <<>>}

\* a map that puts the new item in front of its group
AppendGroup_InFront(groups, key, item) == [groups EXCEPT ![key] = <<item>> \o @]

\* groups[key] = append(groups[key], item)
AppendGroup(groups, key, item) == [groups EXCEPT ![key] = Append(@, item)]

\* a stage as its constructor leaves it: the variables the returned
\* function captures (seen, limit, groups), its own variables (index, and
\* yielded: the keys the range over groups has visited) and where it is
\* (phase); calls counts the calls of its user function and input is what
\* GroupBySeq has read from its inputSeq; and, to state what it does after a
\* stop:
\*   stopSeen   its yield has returned false
\*   lateYield  it called yield after that
\*   latePull   its loop body ran for another upstream element after that
\*   retUp      what its loop body last returned to the upstream producer
NewStage(kind) ==
    [kind |-> kind, seen |-> {},
     limit |-> RemoveLimit(RemoveArgs.occurrencesToDelete),
     groups |-> NoGroups, yielded |-> {}, calls |-> 0, input |-> <<>>,
     index |-> 0, auxPos |-> 0, phase |-> "idle",
     stopSeen |-> FALSE, lateYield |-> FALSE, latePull |-> FALSE,
     retUp |-> "none"]

\* the consumer's yield for its n-th element: true to continue
ConsumerYield(n) == n # take

\* a FilterSeq that does not return when yield returns false
StageContinues_FilterGoesOn(kind, yieldOk) ==
    IF kind = "FilterSeq" THEN TRUE ELSE yieldOk

\* if !yield(x) { return }: after a yield, the loop of a stage goes on
\* exactly when yield returned true
StageContinues(kind, yieldOk) == yieldOk

\* the loop body of a stage for the element `input`, up to its yield:
\* whether it yields, what, and the stage's variables after it
StageBody(s, input) ==
    CASE s.kind = "MapSeq" ->
           [emit |-> TRUE, out |-> mapFunc(input), s |-> [s EXCEPT !.calls = @ + 1]]
      [] s.kind = "FilterSeq" ->
           [emit |-> filterFunc(input), out |-> input,
            s |-> [s EXCEPT !.calls = @ + 1]]
      [] s.kind = "RemoveElementSeq" ->
           IF input = RemoveArgs.element /\ s.limit > 0
           THEN [emit |-> FALSE, out |-> input, s |-> [s EXCEPT !.limit = @ - 1]]
           ELSE [emit |-> TRUE, out |-> input, s |-> s]
      [] s.kind = "RemoveElementsSeq" ->
           [emit |-> input \notin RemoveElementsArgs, out |-> input, s |-> s]
      [] s.kind \in {"DistinctSeq", "UnionSeq"} ->
           IF input \notin s.seen
           THEN [emit |-> TRUE, out |-> input,
                 s |-> [s EXCEPT !.seen = @ \cup {input}]]
           ELSE [emit |-> FALSE, out |-> input, s |-> s]
      [] s.kind = "IntersectionSeq" ->
           [emit |-> input \in s.seen, out |-> input, s |-> s]
      [] s.kind = "DifferenceSeq" ->
           [emit |-> input \notin s.seen, out |-> input, s |-> s]
      [] s.kind = "Ennumerate" ->
           [emit |-> TRUE, out |-> <<s.index, input>>,
            s |-> [s EXCEPT !.index = @ + 1]]
      \* the loop of the constructor: key := keyFunc(item);
      \* groups[key] = append(groups[key], item)
      [] s.kind = "GroupBySeq" ->
           [emit |-> FALSE, out |-> input,
            s |-> [s EXCEPT !.groups = AppendGroup(s.groups, keyFunc(input), input),
                            !.calls = @ + 1,
                            !.input = Append(@, input)]]

RECURSIVE Push(_, _, _, _)
\* the element e is given to the loop body of stage k (to the consumer when
\* k is past the last stage); S are the stages and G the consumer. The
\* result is the stages and the consumer afterwards and what the body
\* returned to its producer (ok: continue).
Push(k, e, S, G) ==
    IF k > Len(S)
    THEN IF G.stopped
         THEN [S |-> S, G |-> [G EXCEPT !.late = TRUE], ok |-> FALSE]
         ELSE LET g == Append(G.got, e)
                  cont == ConsumerYield(Len(g))
              IN [S |-> S, G |-> [got |-> g, stopped |-> ~cont, late |-> G.late],
                  ok |-> cont]
    ELSE IF S[k].phase = "returned"
    THEN [S |-> [S EXCEPT ![k].latePull = TRUE], G |-> G, ok |-> FALSE]
    ELSE LET s == S[k]
             b == StageBody(s, e)
             s1 == [b.s EXCEPT !.latePull = @ \/ s.stopSeen]
         IN IF ~b.emit
            THEN [S |-> [S EXCEPT ![k] = s1], G |-> G, ok |-> TRUE]
            ELSE LET s2 == [s1 EXCEPT !.lateYield = @ \/ s.stopSeen]
                     r == Push(k + 1, b.out, [S EXCEPT ![k] = s2], G)
                     cont == StageContinues(s.kind, r.ok)
                     s3 == [r.S[k] EXCEPT
                               !.stopSeen = @ \/ ~r.ok,
                               !.retUp = IF cont THEN "continue" ELSE "stop",
                               !.phase = IF cont THEN @ ELSE "returned"]
                 IN [S |-> [r.S EXCEPT ![k] = s3], G |-> r.G, ok |-> cont]

RECURSIVE Unwind(_, _)
\* the producer below stage k has returned: the range loop of stage k ends.
\* A UnionSeq in its first loop goes on to its second input; the
\* constructor of GroupBySeq returns the function it has built; any other
\* stage returns, and the loop of the stage after it ends in turn.
Unwind(k, S) ==
    IF k > Len(S) THEN [S |-> S, active |-> Len(S) + 1]
    ELSE IF S[k].kind = "UnionSeq" /\ S[k].phase = "loop1"
    THEN [S |-> [S EXCEPT ![k].phase = "loop2"], active |-> k]
    ELSE IF S[k].kind = "GroupBySeq"
    THEN [S |-> [S EXCEPT ![k].phase = "built"], active |-> Len(S) + 1]
    ELSE Unwind(k + 1, [S EXCEPT ![k].phase = "returned"])

SeqInit ==
    /\ ParIdle
    /\ SafeIdle
    /\ SliceIdle
    /\ qPc = "new"
    /\ plan \in Pipelines(MaxStages)
    /\ drives = 0
    /\ firstGot = <<>>
    /\ src \in SeqsUpTo(Values, MaxSeqLen)
    /\ take \in 0..MaxSeqLen
    /\ stg = <<>>
    /\ active = 0
    /\ srcPos = 0
    /\ got = <<>>
    /\ cStopped = FALSE
    /\ cLate = FALSE
    /\ pulledLate = FALSE

\* the function a stage returned is called: its own variables are new, the
\* variables it captured are as the last call left them; IntersectionSeq
\* and DifferenceSeq first read their other input into seen
Started(s) ==
    [s EXCEPT
        !.phase = "loop1",
        !.seen = IF s.kind \in {"IntersectionSeq", "DifferenceSeq"}
                 THEN @ \cup RangeOf(AuxSrc) ELSE @,
        !.auxPos = IF s.kind \in {"IntersectionSeq", "DifferenceSeq"}
                   THEN Len(AuxSrc) ELSE 0,
        !.index = 0,
        !.yielded = {},
        !.stopSeen = FALSE, !.lateYield = FALSE, !.latePull = FALSE,
        !.retUp = "none"]

\* the pipeline ends in GroupBySeq
EndsInGroupBy(c) == Len(c) > 0 /\ c[Len(c)] = "GroupBySeq"

\* the program calls the constructors, each on the result of the one before.
\* They return a function without calling anything, except GroupBySeq: it
\* ranges over its inputSeq before it returns, which starts every stage
\* before it.
Construct ==
    /\ UNCHANGED notSeq
    /\ qPc = "new"
    /\ stg' = [k \in 1..Len(plan) |->
                 IF ~EndsInGroupBy(plan) THEN NewStage(plan[k])
                 ELSE IF k < Len(plan) THEN Started(NewStage(plan[k]))
                 ELSE [NewStage(plan[k]) EXCEPT !.phase = "collect"]]
    /\ qPc' = IF EndsInGroupBy(plan) THEN "building" ELSE "idle"
    /\ active' = 0
    /\ UNCHANGED <<plan, drives, firstGot, src, take, srcPos, got, cStopped,
                   cLate, pulledLate>>

\* the consumer ranges over the last stage: every stage starts, and calls
\* the stage before it, down to the source, which starts from its first
\* element. The function GroupBySeq returned ranges over its groups and
\* calls no stage.
StartDrive ==
    /\ qPc' = "driving"
    /\ drives' = drives + 1
    /\ got' = <<>>
    /\ IF EndsInGroupBy(plan)
       THEN /\ stg' = [stg EXCEPT ![Len(stg)] = Started(@)]
            /\ active' = Len(stg)
            /\ UNCHANGED srcPos
       ELSE /\ stg' = [k \in 1..Len(stg) |-> Started(stg[k])]
            /\ active' = 0
            /\ srcPos' = 0
    /\ UNCHANGED <<plan, src, take, cStopped, cLate, pulledLate>>

Drive ==
    /\ UNCHANGED notSeq
    /\ qPc = "idle"
    /\ StartDrive
    /\ UNCHANGED firstGot

\* after a drive that ran to the end, the consumer ranges over the same
\* producer a second time
DriveAgain ==
    /\ UNCHANGED notSeq
    /\ qPc = "done"
    /\ drives = 1
    /\ ~cStopped
    /\ StartDrive
    /\ firstGot' = got

Consumer == [got |-> got, stopped |-> cStopped, late |-> cLate]

\* the function GroupBySeq returned is running
GroupByYields == qPc = "driving" /\ EndsInGroupBy(plan)

\* the running producer has elements left
HasNext == IF active = 0 THEN srcPos < Len(src)
           ELSE stg[active].auxPos < Len(AuxSrc)

\* where the call is when the producer below stage `to` has returned
AfterReturn(to) ==
    IF to <= Len(stg) THEN qPc ELSE IF qPc = "building" THEN "idle" ELSE "done"

\* the running producer yields its next element, which goes through the
\* stages after it as far as they pass it on; when its yield returns false
\* the producer returns
Produce ==
    /\ UNCHANGED notSeq
    /\ qPc \in {"driving", "building"}
    /\ ~GroupByYields
    /\ active <= Len(stg)
    /\ HasNext
    /\ LET e == IF active = 0 THEN src[srcPos + 1]
                ELSE AuxSrc[stg[active].auxPos + 1]
           S0 == IF active = 0 THEN stg
                 ELSE [stg EXCEPT ![active].auxPos = @ + 1]
           r == Push(IF active = 0 THEN 1 ELSE active, e, S0, Consumer)
           u == IF r.ok THEN [S |-> r.S, active |-> active]
                ELSE Unwind(IF active = 0 THEN 1 ELSE active, r.S)
       IN /\ stg' = u.S
          /\ active' = u.active
          /\ qPc' = AfterReturn(u.active)
          /\ got' = r.G.got
          /\ cStopped' = r.G.stopped
          /\ cLate' = r.G.late
    /\ srcPos' = IF active = 0 THEN srcPos + 1 ELSE srcPos
    /\ pulledLate' = (pulledLate \/ cStopped)
    /\ UNCHANGED <<plan, drives, firstGot, src, take>>

\* the running producer has no element left and returns
Exhaust ==
    /\ UNCHANGED notSeq
    /\ qPc \in {"driving", "building"}
    /\ ~GroupByYields
    /\ active <= Len(stg)
    /\ ~HasNext
    /\ LET u == Unwind(IF active = 0 THEN 1 ELSE active, stg)
       IN /\ stg' = u.S
          /\ active' = u.active
          /\ qPc' = AfterReturn(u.active)
    /\ UNCHANGED <<plan, drives, firstGot, src, take, srcPos, got, cStopped,
                   cLate, pulledLate>>

\* for key, items := range groups { ... if !yield(key, seq) { return } }:
\* the next key, in the order of the map, which is any order; seq yields
\* the items of the group
YieldGroup ==
    /\ UNCHANGED notSeq
    /\ GroupByYields
    /\ LET n == Len(stg)
           g == stg[n]
       IN \E key \in KeysOf(g.groups) \ g.yielded :
             LET r == Push(n + 1, <<key, g.groups[key]>>, stg, Consumer)
                 cont == StageContinues(g.kind, r.ok)
             IN /\ stg' = [stg EXCEPT
                              ![n].yielded = @ \cup {key},
                              ![n].lateYield = @ \/ g.stopSeen,
                              ![n].stopSeen = @ \/ ~r.ok,
                              ![n].retUp = IF cont THEN "continue" ELSE "stop",
                              ![n].phase = IF cont THEN @ ELSE "returned"]
                /\ active' = IF cont THEN active ELSE n + 1
                /\ qPc' = IF cont THEN "driving" ELSE "done"
                /\ got' = r.G.got
                /\ cStopped' = r.G.stopped
                /\ cLate' = r.G.late
    /\ pulledLate' = (pulledLate \/ cStopped)
    /\ UNCHANGED <<plan, drives, firstGot, src, take, srcPos>>

\* the range over groups has visited every key
GroupsEnd ==
    /\ UNCHANGED notSeq
    /\ GroupByYields
    /\ stg[Len(stg)].yielded = KeysOf(stg[Len(stg)].groups)
    /\ stg' = [stg EXCEPT ![Len(stg)].phase = "returned"]
    /\ active' = Len(stg) + 1
    /\ qPc' = "done"
    /\ UNCHANGED <<plan, drives, firstGot, src, take, srcPos, got, cStopped,
                   cLate, pulledLate>>

SeqNext ==
    \/ Construct
    \/ Drive
    \/ DriveAgain
    \/ Produce
    \/ Exhaust
    \/ YieldGroup
    \/ GroupsEnd

SpecSeq == SeqInit /\ [][SeqNext]_vars

\* ------------------------------------------------------------------------
\* Properties of the lazy sequences
\* ------------------------------------------------------------------------
\* C8: once the consumer has returned stop, it is not called again and no
\* producer produces another element; and every stage whose yield has
\* returned stop has returned stop to its own producer, has returned, has
\* not called yield again and has not been given another element. In a
\* pipeline of any number of stages.
C8_StopPropagates ==
    /\ ~cLate
    /\ ~pulledLate
    /\ cStopped => qPc = "done"
    /\ \A k \in 1..Len(stg) :
          stg[k].stopSeen =>
              /\ stg[k].retUp = "stop"
              /\ stg[k].phase = "returned"
              /\ ~stg[k].lateYield
              /\ ~stg[k].latePull

C8_Witness ==
    /\ qPc = "done"
    /\ cStopped
    /\ Len(stg) >= 2
    /\ \A k \in 1..Len(stg) : stg[k].stopSeen /\ stg[k].retUp = "stop"
    /\ srcPos < Len(src)
    /\ Len(got) >= 1

\* the elements of q that keyFunc gives the key
KeyedBy(q, key) == SelectSeq(q, LAMBDA x : keyFunc(x) = key)

RECURSIVE TotalLen(_)
\* the number of elements of the groups of the pairs <<key, items>> in ps
TotalLen(ps) == IF ps = <<>> THEN 0 ELSE Len(Head(ps)[2]) + TotalLen(Tail(ps))

\* C16: GroupBySeq yields every distinct key exactly once; the group of a
\* key holds exactly the elements of the source with that key, each once, in
\* the order of the source; every element of the source is in exactly one
\* group.
C16_GroupsPartitionSource ==
    (GroupByYields \/ (qPc = "done" /\ EndsInGroupBy(plan))) =>
        LET source == stg[Len(stg)].input
        IN /\ \A i, j \in 1..Len(got) : got[i][1] = got[j][1] => i = j
           /\ \A i \in 1..Len(got) :
                 /\ got[i][2] = KeyedBy(source, got[i][1])
                 /\ Len(got[i][2]) > 0
           /\ (qPc = "done" /\ ~cStopped) =>
                 /\ {got[i][1] : i \in 1..Len(got)} =
                       {keyFunc(source[n]) : n \in 1..Len(source)}
                 /\ TotalLen(got) = Len(source)

C16_Witness ==
    /\ qPc = "done"
    /\ EndsInGroupBy(plan)
    /\ ~cStopped
    /\ Len(got) = 2
    /\ got[1][1] = "odd"
    /\ \E i \in 1..2 : Len(got[i][2]) = 2 /\ got[i][2][1] # got[i][2][2]
    /\ Len(stg[Len(stg)].input) = 3

\* the stages whose function captures a variable of the constructor
\* (RemoveElementSeq with a count n > 0)
CapturingKinds == {"RemoveElementSeq", "DistinctSeq", "UnionSeq",
                   "IntersectionSeq", "DifferenceSeq"}

\* C19: the producer returned by RemoveElementSeq (n > 0), DistinctSeq,
\* UnionSeq, IntersectionSeq or DifferenceSeq over a source that can be
\* ranged over again yields, when driven a second time to the end, the
\* elements of the first drive in the same order.
C19_SecondDriveSame ==
    (qPc = "done" /\ drives = 2 /\ ~cStopped /\ take = 0
        /\ Len(plan) = 1 /\ plan[1] \in CapturingKinds) =>
        got = firstGot

\* until the first drive no element has been taken from the source or
\* from a second input and no user function has been called
NothingPulled ==
    /\ srcPos = 0
    /\ \A k \in 1..Len(stg) : stg[k].auxPos = 0 /\ stg[k].calls = 0

\* every constructor but GroupBySeq leaves the pipeline idle
IdleUntilDrivenButGroupBy ==
    (drives = 0 /\ ~EndsInGroupBy(plan)) => NothingPulled

\* C20: every operation that returns a producer (MapSeq, FilterSeq,
\* RemoveElementSeq, DistinctSeq, the set operations, Ennumerate,
\* GroupBySeq) leaves it idle: until the producer is driven, no element is
\* pulled from upstream and no user function is called.
C20_IdleUntilDriven ==
    drives = 0 => NothingPulled

====
